---- MODULE Spec2Model ----
(***************************************************************************)
(* MuseumLangAPI (museum_lang_api.py): a FastAPI process that loads a      *)
(* pickled language-detection pipeline at import time and serves           *)
(*   POST /identify-language   (identify_language)                         *)
(*   GET  /                    (root)                                      *)
(* Texts are sequences of one-character strings.  Probabilities are        *)
(* fixed-point numbers in units of 1/One, so that One stands for 1.0.      *)
(* Sequences are indexed from 1 where Python indexes from 0.               *)
(***************************************************************************)
EXTENDS Integers, Sequences, FiniteSets, TLC

MaxLen == 2      \* longest request text
MaxReqs == 2     \* requests accepted in one run of the process
MaxProb == 3     \* largest value a pipeline's predict_proba may hand back
One == 2         \* the float 1.0

Chars == {" ", "a"}
Whitespace == {" "}
Texts == UNION {[1..n -> Chars] : n \in 0..MaxLen}

----------------------------------------------------------------------------
(* str.strip(): drop leading and trailing whitespace, keep the inside.     *)

RECURSIVE lstrip(_)
lstrip(s) ==
    IF s # <<>> /\ Head(s) \in Whitespace THEN lstrip(Tail(s)) ELSE s

RECURSIVE rstrip(_)
rstrip(s) ==
    IF s # <<>> /\ s[Len(s)] \in Whitespace
    THEN rstrip(SubSeq(s, 1, Len(s) - 1))
    ELSE s

\* a handler that forgets to sanitise the text
strip_forgotten(s) == s

strip(s) == rstrip(lstrip(s))

(* repr() of a str over Chars: the text between single quotes.             *)
repr(s) == <<"'">> \o s \o <<"'">>

----------------------------------------------------------------------------
(* The unpickled pipeline: an opaque, deterministic binary classifier.     *)
(* What a capability hands back for a one-element batch is a value or an   *)
(* exception.  A pipeline answers `out` for short texts; for long texts it *)
(* answers the same, or the mirror image of `out`, or it raises.           *)

Raise(detail) == [raised |-> TRUE, detail |-> detail, value |-> <<>>]
Return(value) == [raised |-> FALSE, detail |-> "", value |-> value]

classes_ == <<"it", "en">>
NoneLabel == "<None>"                    \* a label that is not a str
Labels == {"it", "en", "fr", NoneLabel}  \* "fr" is not in classes_
ProbVals == 0..MaxProb

\* predict_proba(batch) is a 2-D array: one row of class probabilities per text
ProbaOutcomes ==
    {Return(<< <<p, q>> >>) : p \in ProbVals, q \in ProbVals}
        \cup {Raise("boom")}
\* predict(batch) is a 1-D array: one label per text
PredictOutcomes == {Return(<<l>>) : l \in Labels} \cup {Raise("boom")}

LongTexts == {"same", "mirror", "raise"}

Pipelines ==
    [bound : {TRUE}, has_proba : {TRUE}, out : ProbaOutcomes,
     long_texts : LongTexts]
    \cup
    [bound : {TRUE}, has_proba : {FALSE}, out : PredictOutcomes,
     long_texts : LongTexts]

\* the name loaded_pipeline before (or without) a successful pickle.load
Unbound ==
    [bound |-> FALSE, has_proba |-> FALSE, out |-> Raise("unbound"),
     long_texts |-> "same"]

Long(text) == Len(text) > 1
MirrorLabel(l) == IF l = "it" THEN "en" ELSE IF l = "en" THEN "it" ELSE l
MirrorRow(row) == <<row[2], row[1]>>

VARIABLES
    phase,            \* "boot", "serving" or "dead": where the process is
    loaded_pipeline,  \* the module-level global
    served,           \* the calls handled so far: route, request, response
    log,              \* museumlang_api.log, one record per line
    calls             \* every invocation of a pipeline capability

vars == <<phase, loaded_pipeline, served, log, calls>>

----------------------------------------------------------------------------
(* What the process writes and sends.                                      *)

\* one line of the log file; rid is the call that wrote it (0: startup)
LogRecord(level, rid, msg) == [level |-> level, rid |-> rid, msg |-> msg]

HTTPException(status_code, detail) ==
    [status |-> status_code, body |-> [detail |-> detail]]

\* the messages of lines 72, 96 and 104, their accented letters in ASCII
EmptyTextDetail == "Il testo non puo essere vuoto."
InternalErrorDetail == "Errore interno nel riconoscimento della lingua."

\* LanguageResponse(language_code=..., confidence=...): pydantic validates
\* that language_code is a str
LanguageResponse(language_code, confidence) ==
    IF language_code = NoneLabel
    THEN Raise("ValidationError: language_code str type expected")
    ELSE Return([language_code |-> language_code, confidence |-> confidence])

\* response.json(): the fields in declaration order
json(response) ==
    <<"language_code", response.language_code,
      "confidence", response.confidence>>

----------------------------------------------------------------------------
(* np.argmax: the index of the first maximum.                              *)

RECURSIVE argmax_scan(_, _, _)
argmax_scan(a, i, best) ==
    IF i > Len(a) THEN best
    ELSE argmax_scan(a, i + 1, IF a[i] > a[best] THEN i ELSE best)

\* classes[0] whatever the probabilities are
argmax_first_class(a) == 1

argmax(a) == argmax_scan(a, 2, 1)

----------------------------------------------------------------------------
(* Invoking the pipeline with the one-element batch [text].                *)

predict_proba(p, batch) ==
    IF p.out.raised \/ ~Long(batch[1]) \/ p.long_texts = "same" THEN p.out
    ELSE IF p.long_texts = "mirror"
    THEN Return(<<MirrorRow(p.out.value[1])>>)
    ELSE Raise("boom")

predict(p, batch) ==
    IF p.out.raised \/ ~Long(batch[1]) \/ p.long_texts = "same" THEN p.out
    ELSE IF p.long_texts = "mirror"
    THEN Return(<<MirrorLabel(p.out.value[1])>>)
    ELSE Raise("boom")

\* the outcome of lines 76-85: the label and confidence, or the exception,
\* with the capabilities invoked on the way
Predicted(language_code, confidence, invoked) ==
    [raised |-> FALSE, detail |-> "", language_code |-> language_code,
     confidence |-> confidence, invoked |-> invoked]
Failed(detail, invoked) ==
    [raised |-> TRUE, detail |-> detail, invoked |-> invoked]

\* confidence reported as a percentage
proba_branch_percent(p, text) ==
    LET out == predict_proba(p, <<text>>)
        call == <<[capability |-> "predict_proba", batch |-> <<text>>]>>
    IN  IF out.raised THEN Failed(out.detail, call)
        ELSE LET probabilities == out.value[1]
                 idx == argmax(probabilities)
             IN  Predicted(classes_[idx], probabilities[idx] * 100, call)

\* lines 77-81; float(probabilities[idx]) keeps the value
proba_branch(p, text) ==
    LET out == predict_proba(p, <<text>>)
        call == <<[capability |-> "predict_proba", batch |-> <<text>>]>>
    IN  IF out.raised THEN Failed(out.detail, call)
        ELSE LET probabilities == out.value[1]
                 idx == argmax(probabilities)
             IN  Predicted(classes_[idx], probabilities[idx], call)

\* the fallback without a confidence at all
predict_branch_zero(p, text) ==
    LET out == predict(p, <<text>>)
        call == <<[capability |-> "predict", batch |-> <<text>>]>>
    IN  IF out.raised THEN Failed(out.detail, call)
        ELSE Predicted(out.value[1], 0, call)

\* lines 84-85
predict_branch(p, text) ==
    LET out == predict(p, <<text>>)
        call == <<[capability |-> "predict", batch |-> <<text>>]>>
    IN  IF out.raised THEN Failed(out.detail, call)
        ELSE Predicted(out.value[1], One, call)

\* the texts classified so far, end to end
RECURSIVE Joined(_)
Joined(cs) == IF cs = <<>> THEN <<>> ELSE cs[1].batch[1] \o Joined(Tail(cs))

\* the text appended to a module-level buffer that is never cleared
classify_buffered(p, text) ==
    IF ~p.bound THEN Failed("NameError: loaded_pipeline", <<>>)
    ELSE IF p.has_proba THEN proba_branch(p, Joined(calls) \o text)
    ELSE predict_branch(p, Joined(calls) \o text)

\* lines 76-85; reading an unbound global raises NameError
classify(p, text) ==
    IF ~p.bound THEN Failed("NameError: loaded_pipeline", <<>>)
    ELSE IF p.has_proba THEN proba_branch(p, text)
    ELSE predict_branch(p, text)

----------------------------------------------------------------------------
(* The pieces of identify_language.                                        *)

\* line 71
bad_request_log(rid, raw) ==
    <<LogRecord("WARNING", rid, [tag |-> "BadRequest", text |-> repr(raw)])>>

\* the success forgotten in the audit log
predict_log_missing(rid, text, response) == <<>>

\* line 90
predict_log(rid, text, response) ==
    <<LogRecord("INFO", rid,
                [tag |-> "Predict", text |-> text, json |-> json(response)])>>

\* line 95
error_log(rid, e) ==
    <<LogRecord("ERROR", rid, [tag |-> "Error", detail |-> e])>>

\* the exception text handed to the client
error_response_leaking(e) == HTTPException(500, e)

\* line 96
error_response(e) == HTTPException(500, InternalErrorDetail)

\* line 104
RootBody == [message |-> "MuseumLangAPI e attiva."]

\* a health check that reports the failures seen so far
root_response_degraded ==
    IF \E r \in 1..Len(served) : served[r].response.status = 500
    THEN [status |-> 503, body |-> RootBody]
    ELSE [status |-> 200, body |-> RootBody]

root_response == [status |-> 200, body |-> RootBody]

\* the failure logged and swallowed: the module finishes importing
startup_failure_swallowed == "serving"

\* line 51: raise RuntimeError ends the import, and the process with it
startup_failure == "dead"

----------------------------------------------------------------------------
(* The process.                                                            *)

Init ==
    /\ phase = "boot"
    /\ loaded_pipeline = Unbound
    /\ served = <<>>
    /\ log = <<>>
    /\ calls = <<>>

LoadErrors == {"FileNotFoundError", "UnpicklingError"}

\* lines 44-47: pickle.load succeeds and the module goes on to serve
load_pipeline(p) ==
    /\ phase = "boot"
    /\ loaded_pipeline' = p
    /\ log' = Append(log, LogRecord("INFO", 0, [tag |-> "Init"]))
    /\ phase' = "serving"
    /\ UNCHANGED <<served, calls>>

\* lines 48-51: open or pickle.load raises
load_pipeline_fails(e) ==
    /\ phase = "boot"
    /\ log' = Append(log, LogRecord("ERROR", 0, [tag |-> "Init", detail |-> e]))
    /\ phase' = startup_failure
    /\ UNCHANGED <<loaded_pipeline, served, calls>>

\* the app takes requests once the module is imported, MaxReqs of them here
Accepting == phase = "serving" /\ Len(served) < MaxReqs

Served(route, request, response) ==
    [route |-> route, request |-> request, response |-> response]

Invocations(rid, invoked) ==
    [i \in 1..Len(invoked) |->
        [rid |-> rid, capability |-> invoked[i].capability,
         batch |-> invoked[i].batch]]

\* a handler that drops the pipeline once a prediction has failed
identify_language_unloading(request) ==
    /\ Accepting
    /\ LET rid == Len(served) + 1
           text == strip(request.text)
       IN  IF text = <<>>
           THEN /\ log' = log \o bad_request_log(rid, request.text)
                /\ served' = Append(served, Served("POST /identify-language", request,
                                        HTTPException(400, EmptyTextDetail)))
                /\ UNCHANGED <<calls, loaded_pipeline>>
           ELSE LET c == classify(loaded_pipeline, text)
                    built == IF c.raised THEN Raise(c.detail)
                             ELSE LanguageResponse(c.language_code, c.confidence)
                IN  /\ calls' = calls \o Invocations(rid, c.invoked)
                    /\ IF built.raised
                       THEN /\ log' = log \o error_log(rid, built.detail)
                            /\ served' = Append(served, Served("POST /identify-language",
                                            request, error_response(built.detail)))
                            /\ loaded_pipeline' = Unbound
                       ELSE /\ log' = log \o predict_log(rid, text, built.value)
                            /\ served' = Append(served, Served("POST /identify-language",
                                            request, [status |-> 200, body |-> built.value]))
                            /\ UNCHANGED loaded_pipeline
    /\ UNCHANGED phase

\* lines 54-96, run to completion: the coroutine never awaits, so the event
\* loop runs no other handler in the middle of it
identify_language(request) ==
    /\ Accepting
    /\ LET rid == Len(served) + 1
           text == strip(request.text)
       IN  IF text = <<>>
           THEN /\ log' = log \o bad_request_log(rid, request.text)
                /\ served' = Append(served, Served("POST /identify-language", request,
                                        HTTPException(400, EmptyTextDetail)))
                /\ calls' = calls
           ELSE LET c == classify(loaded_pipeline, text)
                    built == IF c.raised THEN Raise(c.detail)
                             ELSE LanguageResponse(c.language_code, c.confidence)
                IN  /\ calls' = calls \o Invocations(rid, c.invoked)
                    /\ IF built.raised
                       THEN /\ log' = log \o error_log(rid, built.detail)
                            /\ served' = Append(served, Served("POST /identify-language",
                                            request, error_response(built.detail)))
                       ELSE /\ log' = log \o predict_log(rid, text, built.value)
                            /\ served' = Append(served, Served("POST /identify-language",
                                            request, [status |-> 200, body |-> built.value]))
    /\ UNCHANGED <<phase, loaded_pipeline>>

\* lines 99-104
root ==
    /\ Accepting
    /\ served' = Append(served, Served("GET /", [none |-> TRUE], root_response))
    /\ UNCHANGED <<phase, loaded_pipeline, log, calls>>

Next ==
    \/ \E p \in Pipelines : load_pipeline(p)
    \/ \E e \in LoadErrors : load_pipeline_fails(e)
    \/ \E t \in Texts : identify_language([text |-> t])
    \/ root

Spec == Init /\ [][Next]_vars

----------------------------------------------------------------------------
(* Vocabulary of the properties.                                           *)

Rids == 1..Len(served)
Identify(r) == served[r].route = "POST /identify-language"
Health(r) == served[r].route = "GET /"
Raw(r) == served[r].request.text
Status(r) == served[r].response.status
Body(r) == served[r].response.body
LinesOf(r) == SelectSeq(log, LAMBDA e : e.rid = r)
CallsOf(r) == SelectSeq(calls, LAMBDA c : c.rid = r)

TrimsToEmpty(raw) == \A i \in 1..Len(raw) : raw[i] \in Whitespace

\* the text between the first and the last character that is not whitespace
Trimmed(raw) ==
    LET keep == {i \in 1..Len(raw) : raw[i] \notin Whitespace}
    IN  IF keep = {} THEN <<>>
        ELSE SubSeq(raw, CHOOSE i \in keep : \A j \in keep : i <= j,
                         CHOOSE i \in keep : \A j \in keep : j <= i)

Success(r) == Identify(r) /\ Status(r) = 200
ClassLabels == {classes_[i] : i \in DOMAIN classes_}
\* what the loaded pipeline's capabilities hand back for the call's batch
Row(r) == predict_proba(loaded_pipeline, <<Trimmed(Raw(r))>>).value[1]
Label(r) == predict(loaded_pipeline, <<Trimmed(Raw(r))>>).value[1]

----------------------------------------------------------------------------
\* C1: a request whose text is empty or only whitespace is answered 400 with
\* a non-empty message, invokes no capability of the pipeline, and writes
\* exactly one log line: a WARNING carrying the untrimmed text, no INFO.
C1_EmptyTextRejected ==
    \A r \in Rids :
        (Identify(r) /\ TrimsToEmpty(Raw(r))) =>
            /\ Status(r) = 400
            /\ DOMAIN Body(r) = {"detail"}
            /\ Body(r).detail # ""
            /\ CallsOf(r) = <<>>
            /\ Len(LinesOf(r)) = 1
            /\ LinesOf(r)[1].level = "WARNING"
            /\ LET shown == LinesOf(r)[1].msg.text
               IN  SubSeq(shown, 2, Len(shown) - 1) = Raw(r)

C1_Witness ==
    \E r \in Rids :
        /\ Identify(r)
        /\ Raw(r) = <<" ", " ">>
        /\ Status(r) = 400
        /\ LinesOf(r)[1].level = "WARNING"

\* C2: when the text is not empty and the pipeline, or the construction of
\* the result from what it returned, raises, the answer is 500 and not 400,
\* carries no result field, and its message is the fixed generic text, which
\* is not the exception's own (the one written to the log).
C2_RaisesOn(p, raw) ==
    LET c == classify(p, Trimmed(raw))
    IN  c.raised \/ c.language_code = NoneLabel
C2_Raises(r) == C2_RaisesOn(loaded_pipeline, Raw(r))

C2_FailureIs500 ==
    \A r \in Rids :
        (Identify(r) /\ ~TrimsToEmpty(Raw(r)) /\ C2_Raises(r)) =>
            /\ Status(r) = 500
            /\ DOMAIN Body(r) = {"detail"}
            /\ Body(r).detail = InternalErrorDetail
            /\ \A i \in 1..Len(LinesOf(r)) :
                   LinesOf(r)[i].level = "ERROR" =>
                       LinesOf(r)[i].msg.detail # Body(r).detail

C2_Witness ==
    \E r \in Rids :
        /\ Identify(r)
        /\ Status(r) = 500
        /\ Len(LinesOf(r)) = 1
        /\ LinesOf(r)[1].msg.detail = "boom"
        /\ Len(CallsOf(r)) = 1

\* C3: every call of identify_language writes exactly one log line, WARNING
\* when it answers 400, INFO when it answers 200, ERROR when it answers 500.
C3_OneLinePerCall ==
    \A r \in Rids :
        Identify(r) =>
            /\ Len(LinesOf(r)) = 1
            /\ LinesOf(r)[1].level =
                   CASE Status(r) = 400 -> "WARNING"
                     [] Status(r) = 200 -> "INFO"
                     [] Status(r) = 500 -> "ERROR"
                     [] OTHER -> "none"

C3_Witness ==
    \E r1 \in Rids, r2 \in Rids :
        /\ Identify(r1) /\ Status(r1) = 500
        /\ LinesOf(r1)[1].level = "ERROR"
        /\ Identify(r2) /\ Status(r2) = 200
        /\ LinesOf(r2)[1].level = "INFO"

\* C4 as stated: every successful result has a confidence in [0,1] and a
\* language_code among the pipeline's class labels, whatever the pipeline's
\* predict_proba and predict hand back.
C4_AsStated ==
    \A r \in Rids :
        Success(r) =>
            /\ Body(r).confidence \in 0..One
            /\ Body(r).language_code \in ClassLabels

\* C4, amended: a successful result's confidence is in [0,1] provided the
\* probabilities predict_proba handed back for the text are; its
\* language_code is a class label when it comes from predict_proba, and
\* when predict itself handed back a class label.
C4_InRangeWhenModelIs ==
    \A r \in Rids :
        Success(r) =>
            IF loaded_pipeline.has_proba
            THEN /\ (\A i \in DOMAIN Row(r) : Row(r)[i] \in 0..One)
                        => Body(r).confidence \in 0..One
                 /\ Body(r).language_code \in ClassLabels
            ELSE /\ Body(r).confidence \in 0..One
                 /\ Label(r) \in ClassLabels
                        => Body(r).language_code \in ClassLabels

C4_Witness ==
    \E r \in Rids :
        /\ Success(r)
        /\ loaded_pipeline.has_proba
        /\ Row(r) = <<1, 2>>
        /\ Body(r).confidence \in 0..One

\* C5: a successful result is the classification of the trimmed text, passed
\* as a one-element batch.  With predict_proba: predict_proba is the only
\* capability invoked, once; language_code is the class label at an index
\* whose probability no other class exceeds, and confidence is that
\* probability.  Without: predict is the only capability invoked, once;
\* language_code is the label it returned and confidence is 1.0.
C5_ResultIsClassification ==
    \A r \in Rids :
        Success(r) =>
            IF loaded_pipeline.has_proba
            THEN /\ CallsOf(r) = <<[rid |-> r, capability |-> "predict_proba",
                                    batch |-> <<Trimmed(Raw(r))>>]>>
                 /\ \E i \in DOMAIN Row(r) :
                        /\ Body(r).language_code = classes_[i]
                        /\ Body(r).confidence = Row(r)[i]
                        /\ \A j \in DOMAIN Row(r) : Row(r)[j] <= Row(r)[i]
            ELSE /\ CallsOf(r) = <<[rid |-> r, capability |-> "predict",
                                    batch |-> <<Trimmed(Raw(r))>>]>>
                 /\ Body(r).language_code = Label(r)
                 /\ Body(r).confidence = One

C5_Witness ==
    \E r \in Rids :
        /\ Success(r)
        /\ loaded_pipeline.has_proba
        /\ Raw(r) = <<" ", "a">>
        /\ Row(r) = <<0, 1>>
        /\ Body(r).language_code = "en"

\* C6 as stated: in a successful result, confidence is 1.0 exactly when the
\* pipeline has no predict_proba.
C6_AsStated ==
    \A r \in Rids :
        Success(r) =>
            (Body(r).confidence = One <=> ~loaded_pipeline.has_proba)

\* C6, amended: in a successful result, confidence is 1.0 whenever the
\* pipeline has no predict_proba; with predict_proba it is the largest
\* class probability, which may itself be 1.0.
C6_OneWithoutProba ==
    \A r \in Rids :
        Success(r) =>
            IF loaded_pipeline.has_proba
            THEN /\ \E i \in DOMAIN Row(r) : Body(r).confidence = Row(r)[i]
                 /\ \A i \in DOMAIN Row(r) : Row(r)[i] <= Body(r).confidence
            ELSE Body(r).confidence = One

C6_Witness ==
    \E r1 \in Rids :
        /\ Success(r1)
        /\ ~loaded_pipeline.has_proba
        /\ Body(r1).confidence = One
        /\ Body(r1).language_code = "it"

\* C7: the pipeline is loaded once, before anything is served.  When loading
\* fails, one ERROR line is written, the process is dead and nothing is ever
\* served; whatever is served is served by a process holding a loaded
\* pipeline.
StartupLines == SelectSeq(log, LAMBDA e : e.rid = 0)
C7_FailFast ==
    /\ Len(StartupLines) <= 1
    /\ (log # <<>>) => log[1].rid = 0
    /\ (StartupLines # <<>> /\ StartupLines[1].level = "ERROR") =>
            /\ phase = "dead"
            /\ served = <<>>
            /\ calls = <<>>
            /\ ~loaded_pipeline.bound
    /\ (served # <<>>) =>
            /\ phase = "serving"
            /\ loaded_pipeline.bound
            /\ StartupLines # <<>> /\ StartupLines[1].level = "INFO"

C7_Witness ==
    /\ phase = "dead"
    /\ Len(log) = 1
    /\ log[1].level = "ERROR"
    /\ log[1].msg.detail = "FileNotFoundError"

\* C8: GET / is always answered 200 with the same body; it invokes no
\* capability of the pipeline and writes nothing, whatever was served before.
C8_HealthAlways200 ==
    \A r \in Rids :
        Health(r) =>
            /\ served[r].response = [status |-> 200, body |-> RootBody]
            /\ CallsOf(r) = <<>>
            /\ LinesOf(r) = <<>>

C8_Witness ==
    \E r1 \in Rids, r2 \in Rids :
        /\ r1 < r2
        /\ Identify(r1) /\ Status(r1) = 500
        /\ Health(r2) /\ Status(r2) = 200

\* C9: two calls of identify_language with the same text get the same
\* answer: the same status, and the same language_code and confidence or the
\* same error.
C9_SameTextSameAnswer ==
    \A r1 \in Rids, r2 \in Rids :
        (Identify(r1) /\ Identify(r2) /\ Raw(r1) = Raw(r2)) =>
            served[r1].response = served[r2].response

C9_Witness ==
    \E r1 \in Rids, r2 \in Rids :
        /\ r1 < r2
        /\ Success(r1) /\ Success(r2)
        /\ Raw(r1) = Raw(r2)
        /\ loaded_pipeline.has_proba

\* C10: once the process serves, no handler rebinds or changes the pipeline;
\* a handler only appends its own answer, its own log line and its own
\* invocations; and the answer to each request is the one a process that
\* serves this request alone, with the same pipeline, gives.
AnswerAlone(p, raw) ==
    LET c == classify(p, Trimmed(raw))
    IN  IF TrimsToEmpty(raw) THEN HTTPException(400, EmptyTextDetail)
        ELSE IF C2_RaisesOn(p, raw) THEN HTTPException(500, InternalErrorDetail)
        ELSE [status |-> 200,
              body |-> [language_code |-> c.language_code,
                        confidence |-> c.confidence]]

C10_Step ==
    (phase = "serving") =>
        /\ loaded_pipeline' = loaded_pipeline
        /\ phase' = phase
        /\ Len(served') = Len(served) + 1
        /\ SubSeq(served', 1, Len(served)) = served
        /\ SubSeq(log', 1, Len(log)) = log
        /\ SubSeq(calls', 1, Len(calls)) = calls
        /\ \A i \in (Len(log) + 1)..Len(log') : log'[i].rid = Len(served')
        /\ \A i \in (Len(calls) + 1)..Len(calls') : calls'[i].rid = Len(served')

C10_Answers ==
    \A r \in Rids :
        Identify(r) => served[r].response = AnswerAlone(loaded_pipeline, Raw(r))

C10_PipelineReadOnly == [][C10_Step]_vars /\ []C10_Answers

C10_Witness ==
    \E r1 \in Rids, r2 \in Rids :
        /\ r1 < r2
        /\ Identify(r1) /\ Status(r1) = 500
        /\ Success(r2)

====
